---- MODULE Spec2Model ----
(***************************************************************************)
(* Model of the nutrition-tracking backend (backend/nutritionDB.py and the *)
(* earlier backend/app.py): the SQLite tables scans and products, the      *)
(* cache-first product lookup with its Open Food Facts fallback, and the   *)
(* request handlers, run by a pool of worker threads.  Every SQL statement *)
(* and the external HTTP call is one atomic step of the worker running it. *)
(***************************************************************************)
EXTENDS Integers, Sequences, FiniteSets, TLC

(* ------------------------------- bounds -------------------------------- *)
\* requests accepted in one behaviour
MaxRequests == 2
\* last reading of the UTC clock
MaxClock == 1

\* the worker threads of the server: two requests can be in progress at once
Procs == {1, 2}

(* ------------------------- JSON / Python values ------------------------ *)
\* A scalar travelling through a request body, the Open Food Facts payload
\* or a table cell: None, an int, a float, a str (the k-th text, 0 being
\* the empty string), the text of a number, or a list/dict.
FNone == [t |-> "none", v |-> 0]
PyInt(n) == [t |-> "int", v |-> n]
PyFloat(n) == [t |-> "real", v |-> n]
PyStr(k) == [t |-> "text", v |-> k]
NumText(n) == [t |-> "numtext", v |-> n]
Obj == [t |-> "obj", v |-> 1]

\* Python truth value, as used by `or` and `if not`
Truthy(x) ==
    CASE x.t = "none" -> FALSE
      [] x.t \in {"int", "real"} -> x.v # 0
      [] x.t = "text" -> x.v # 0
      [] x.t = "numtext" -> TRUE
      [] x.t = "obj" -> x.v # 0

\* Python `a or b`
PyOr(a, b) == IF Truthy(a) THEN a ELSE b

\* Python ==, under which 200 == 200.0
PyEq(x, y) ==
    \/ x = y
    \/ x.t \in {"int", "real"} /\ y.t \in {"int", "real"} /\ x.v = y.v

(* ------------------------------ strings -------------------------------- *)
\* A barcode is a string, modelled as a sequence of characters.
Space == " "
NoneStr == <<"N", "o", "n", "e">>

RECURSIVE LStrip(_)
LStrip(s) == IF s # <<>> /\ Head(s) = Space THEN LStrip(Tail(s)) ELSE s

RECURSIVE RStrip(_)
RStrip(s) ==
    IF s # <<>> /\ s[Len(s)] = Space THEN RStrip(SubSeq(s, 1, Len(s) - 1)) ELSE s

\* str.strip()
Strip(s) == RStrip(LStrip(s))

\* The "barcode" member of a request body: absent, null or a string.
Absent == [k |-> "absent", s |-> <<>>]
Null == [k |-> "null", s |-> <<>>]
Str(s) == [k |-> "str", s |-> s]

\* str(data.get("barcode", "")): the default only applies to an absent key,
\* and str(None) is the text "None"
BarcodeText(raw) ==
    CASE raw.k = "absent" -> <<>>
      [] raw.k = "null" -> NoneStr
      [] raw.k = "str" -> raw.s

(* --------------------------- SQLite columns ---------------------------- *)
\* sqlite3 can bind None, int, float and str; a list or dict raises
Bindable(x) == x.t # "obj"

\* a value stored in a REAL column and read back
RealAffinity(x) ==
    CASE x.t \in {"int", "numtext"} -> PyFloat(x.v)
      [] OTHER -> x

\* a value stored in a TEXT column and read back
TextAffinity(x) ==
    CASE x.t \in {"int", "real"} -> NumText(x.v)
      [] OTHER -> x

\* Python None where a dict is expected (no row, no product)
None == [none |-> TRUE]

(* ----------------------- Open Food Facts responses --------------------- *)
\* What requests.get(url, timeout=6) can produce.  net: the call returned
\* ("ok") or raised a RequestException ("error", "timeout").  body: the JSON
\* text is unparseable ("invalid"), parses to something that is not a dict
\* ("array") or to a dict ("object").  product and nutriments: the member is
\* missing/null/empty ("missing"), a non-empty non-dict ("nondict") or a
\* dict ("dict") with the members listed.
GoodResponse ==
    [net |-> "ok", status_code |-> 200, json_content_type |-> TRUE,
     body |-> "object", product |-> "dict",
     product_name |-> PyStr(1), product_name_en |-> FNone,
     nutriments |-> "dict",
     energy_kcal_100g |-> PyInt(2), proteins_100g |-> PyInt(1),
     carbohydrates_100g |-> PyFloat(3), fat_100g |-> PyInt(0),
     image_front_url |-> PyStr(2), image_url |-> FNone]

\* every kind of answer, met when requests are served one at a time
AllResponses ==
    { GoodResponse,
      [GoodResponse EXCEPT !.product_name = PyStr(0), !.product_name_en = PyStr(3),
                           !.nutriments = "missing",
                           !.image_front_url = FNone, !.image_url = PyStr(2)],
      [GoodResponse EXCEPT !.net = "error"],
      [GoodResponse EXCEPT !.net = "timeout"],
      [GoodResponse EXCEPT !.status_code = 404],
      [GoodResponse EXCEPT !.json_content_type = FALSE],
      [GoodResponse EXCEPT !.body = "invalid"],
      [GoodResponse EXCEPT !.body = "array"],
      [GoodResponse EXCEPT !.product = "missing"],
      [GoodResponse EXCEPT !.product = "nondict"],
      [GoodResponse EXCEPT !.product_name = FNone],
      [GoodResponse EXCEPT !.product_name = PyStr(0)],
      [GoodResponse EXCEPT !.nutriments = "nondict"],
      [GoodResponse EXCEPT !.energy_kcal_100g = Obj] }

\* the answers that the concurrent workers meet
Responses ==
    { GoodResponse,
      [GoodResponse EXCEPT !.product_name = PyStr(0), !.product_name_en = PyStr(3),
                           !.nutriments = "missing",
                           !.image_front_url = FNone, !.image_url = PyStr(2)],
      [GoodResponse EXCEPT !.net = "timeout"],
      [GoodResponse EXCEPT !.body = "invalid"],
      [GoodResponse EXCEPT !.product_name = FNone],
      [GoodResponse EXCEPT !.energy_kcal_100g = Obj] }

\* what a function call comes to: a returned value or a raised exception
Return(x) == [raised |-> FALSE, value |-> x]
Raise == [raised |-> TRUE, value |-> None]

\* product.get(...) of the payload's product: {} when payload.get("product")
\* is falsy or the content type is not JSON
ProductMember(r, x) ==
    IF r.json_content_type /\ r.product = "dict" THEN x ELSE FNone

\* nutr.get(...): {} when product.get("nutriments") is falsy
NutrimentsMember(r, x) ==
    IF r.json_content_type /\ r.product = "dict" /\ r.nutriments = "dict"
    THEN x ELSE FNone

\* the dict carries no source tag
OffResult_untagged(barcode, r, clock) ==
    [barcode |-> barcode,
     name |-> PyOr(ProductMember(r, r.product_name),
                   ProductMember(r, r.product_name_en)),
     calories |-> NutrimentsMember(r, r.energy_kcal_100g),
     protein |-> NutrimentsMember(r, r.proteins_100g),
     carbs |-> NutrimentsMember(r, r.carbohydrates_100g),
     fat |-> NutrimentsMember(r, r.fat_100g),
     image_url |-> PyOr(ProductMember(r, r.image_front_url),
                        ProductMember(r, r.image_url)),
     source |-> "",
     updated_at |-> clock]

\* the calories are read from the fat member
OffResult_wrongkey(barcode, r, clock) ==
    [barcode |-> barcode,
     name |-> PyOr(ProductMember(r, r.product_name),
                   ProductMember(r, r.product_name_en)),
     calories |-> NutrimentsMember(r, r.fat_100g),
     protein |-> NutrimentsMember(r, r.proteins_100g),
     carbs |-> NutrimentsMember(r, r.carbohydrates_100g),
     fat |-> NutrimentsMember(r, r.fat_100g),
     image_url |-> PyOr(ProductMember(r, r.image_front_url),
                        ProductMember(r, r.image_url)),
     source |-> "openfoodfacts",
     updated_at |-> clock]

\* the dict built from the payload
OffResult(barcode, r, clock) ==
    [barcode |-> barcode,
     name |-> PyOr(ProductMember(r, r.product_name),
                   ProductMember(r, r.product_name_en)),
     calories |-> NutrimentsMember(r, r.energy_kcal_100g),
     protein |-> NutrimentsMember(r, r.proteins_100g),
     carbs |-> NutrimentsMember(r, r.carbohydrates_100g),
     fat |-> NutrimentsMember(r, r.fat_100g),
     image_url |-> PyOr(ProductMember(r, r.image_front_url),
                        ProductMember(r, r.image_url)),
     source |-> "openfoodfacts",
     updated_at |-> clock]

\* the check of the name is missing
fetch_openfoodfacts_unnamed(barcode, r, clock) ==
    IF r.net # "ok" THEN Return(None)
    ELSE IF r.status_code # 200 THEN Return(None)
    ELSE IF r.json_content_type /\ r.body = "invalid" THEN Raise
    ELSE IF r.json_content_type /\ r.body = "array" THEN Raise
    ELSE IF r.json_content_type /\ r.product = "nondict" THEN Raise
    ELSE IF r.json_content_type /\ r.product = "dict" /\ r.nutriments = "nondict"
         THEN Raise
    ELSE Return(OffResult(barcode, r, clock))

fetch_openfoodfacts(barcode, r, clock) ==
    IF r.net # "ok" THEN Return(None)
    ELSE IF r.status_code # 200 THEN Return(None)
    ELSE IF r.json_content_type /\ r.body = "invalid" THEN Raise
    ELSE IF r.json_content_type /\ r.body = "array" THEN Raise
    ELSE IF r.json_content_type /\ r.product = "nondict" THEN Raise
    ELSE IF r.json_content_type /\ r.product = "dict" /\ r.nutriments = "nondict"
         THEN Raise
    ELSE IF ~Truthy(OffResult(barcode, r, clock).name) THEN Return(None)
    ELSE Return(OffResult(barcode, r, clock))

(* ------------------------------- tables -------------------------------- *)
\* the row is stamped a clock reading after the product
ProductRow_stamp(product) ==
    [barcode |-> product.barcode,
     name |-> TextAffinity(product.name),
     calories |-> RealAffinity(product.calories),
     protein |-> RealAffinity(product.protein),
     carbs |-> RealAffinity(product.carbs),
     fat |-> RealAffinity(product.fat),
     image_url |-> TextAffinity(product.image_url),
     source |-> product.source,
     updated_at |-> product.updated_at + 1]

\* The row that the nine bound parameters of upsert_product make: barcode,
\* name, image_url, source and updated_at are TEXT columns, the four
\* nutrient columns are REAL.
ProductRow(product) ==
    [barcode |-> product.barcode,
     name |-> TextAffinity(product.name),
     calories |-> RealAffinity(product.calories),
     protein |-> RealAffinity(product.protein),
     carbs |-> RealAffinity(product.carbs),
     fat |-> RealAffinity(product.fat),
     image_url |-> TextAffinity(product.image_url),
     source |-> product.source,
     updated_at |-> product.updated_at]

ProductBindable(product) ==
    /\ Bindable(product.name) /\ Bindable(product.calories)
    /\ Bindable(product.protein) /\ Bindable(product.carbs)
    /\ Bindable(product.fat) /\ Bindable(product.image_url)

\* the new row keeps the old row's value wherever the new value is NULL
Coalesce(new, old) == IF new = FNone THEN old ELSE new
upsert_product_merge(table, product) ==
    LET old == {row \in table : row.barcode = product.barcode}
        new == ProductRow(product)
    IN IF old = {} THEN table \cup {new}
       ELSE LET o == CHOOSE row \in old : TRUE IN
            (table \ old) \cup
            { [new EXCEPT !.name = Coalesce(@, o.name),
                          !.calories = Coalesce(@, o.calories),
                          !.protein = Coalesce(@, o.protein),
                          !.carbs = Coalesce(@, o.carbs),
                          !.fat = Coalesce(@, o.fat),
                          !.image_url = Coalesce(@, o.image_url)] }

\* INSERT OR IGNORE: an entry that is there stays
upsert_product_ignore(table, product) ==
    IF \E row \in table : row.barcode = product.barcode THEN table
    ELSE table \cup {ProductRow(product)}

\* the write is lost
upsert_product_lost(table, product) == table

\* INSERT OR REPLACE INTO products: the rows that conflict with the new row
\* on the primary key are deleted, then the new row is inserted
upsert_product(table, product) ==
    {row \in table : row.barcode # product.barcode} \cup {ProductRow(product)}

\* the query finds no row
SelectProduct_none(table, barcode) == {}

\* SELECT * FROM products WHERE barcode=?
SelectProduct(table, barcode) == {row \in table : row.barcode = barcode}

\* the row takes the id of the row before it
ScanRow_sameid(id, l) ==
    [id |-> IF id > 1 THEN id - 1 ELSE id, ts |-> l.ts, barcode |-> l.barcode,
     name |-> TextAffinity(l.name),
     calories |-> RealAffinity(l.calories),
     protein |-> RealAffinity(l.protein),
     carbs |-> RealAffinity(l.carbs),
     fat |-> RealAffinity(l.fat),
     image_url |-> TextAffinity(l.image_url)]

\* the row that INSERT INTO scans makes, with the id SQLite assigns
ScanRow(id, l) ==
    [id |-> id, ts |-> l.ts, barcode |-> l.barcode,
     name |-> TextAffinity(l.name),
     calories |-> RealAffinity(l.calories),
     protein |-> RealAffinity(l.protein),
     carbs |-> RealAffinity(l.carbs),
     fat |-> RealAffinity(l.fat),
     image_url |-> TextAffinity(l.image_url)]

ScanBindable(l) ==
    /\ Bindable(l.name) /\ Bindable(l.calories) /\ Bindable(l.protein)
    /\ Bindable(l.carbs) /\ Bindable(l.fat) /\ Bindable(l.image_url)

(* ----------------------------- scan queries ---------------------------- *)
\* the clock counts in 256ths of a day; reading 0 is a midnight of the UTC clock
TicksPerDay == 256

\* the text YYYY-MM-DD of day d, the days numbered from the day of reading 0
IsoDate(d) == <<ToString(d)>>

\* substr(ts, 1, 10) of the isoformat text of the UTC clock reading ts
Substr10(ts) == IsoDate(ts \div TicksPerDay)

\* the offsets of local time from UTC that the server may run under:
\* twelve hours behind, none, twelve hours ahead
UtcOffsets == { -(TicksPerDay \div 2), 0, TicksPerDay \div 2 }

\* date.today().isoformat() at the clock reading clock under the offset
Today(clock, offset) == IsoDate((clock + offset) \div TicksPerDay)

\* the rows of table that WHERE substr(ts, 1, 10) = day keeps, in rowid order
WhereDate(table, day) == SelectSeq(table, LAMBDA row : Substr10(row.ts) = day)

\* rows by ts, newest first, rows of equal ts as the sort leaves them
ByTsDesc(rows) == SortSeq(rows, LAMBDA a, b : a.ts > b.ts)

\* the ids of the rows that share their ts with another row
Tied(rows) ==
    LET s == ByTsDesc(rows) IN
    {s[k].id : k \in {k \in DOMAIN s :
                         \/ k > 1 /\ s[k - 1].ts = s[k].ts
                         \/ k < Len(s) /\ s[k + 1].ts = s[k].ts}}

\* the orders ORDER BY ts hands out, oldest first
OrderByTs_asc(rows) ==
    {SortSeq(rows, LAMBDA a, b : \/ a.ts < b.ts
                                 \/ a.ts = b.ts /\ tie[a.id] < tie[b.id])
     : tie \in Permutations(Tied(rows))}

\* ORDER BY ts DESC: the orders SQLite may hand out; rows of equal ts come in
\* any order
OrderByTs(rows) ==
    {SortSeq(rows, LAMBDA a, b : \/ a.ts > b.ts
                                 \/ a.ts = b.ts /\ tie[a.id] < tie[b.id])
     : tie \in Permutations(Tied(rows))}

\* LIMIT 200
ListLimit == 200
Limit(rows) == SubSeq(rows, 1, IF Len(rows) < ListLimit THEN Len(rows) ELSE ListLimit)

\* the values of a column that are not NULL
NonNull(rows, col) == SelectSeq([i \in DOMAIN rows |-> rows[i][col]], LAMBDA x : x # FNone)

\* the sum of the numbers xs, by halves
RECURSIVE Total(_)
Total(xs) ==
    IF xs = <<>> THEN 0
    ELSE IF Len(xs) = 1 THEN xs[1].v
    ELSE Total(SubSeq(xs, 1, Len(xs) \div 2))
         + Total(SubSeq(xs, Len(xs) \div 2 + 1, Len(xs)))

\* a NULL among the values makes the sum NULL
SqlSum_null(rows, col) ==
    IF Len(NonNull(rows, col)) < Len(rows) THEN FNone
    ELSE PyFloat(Total(NonNull(rows, col)))

\* SUM(col): NULL when no row has a value, else the sum as a REAL
SqlSum(rows, col) ==
    IF NonNull(rows, col) = <<>> THEN FNone ELSE PyFloat(Total(NonNull(rows, col)))

\* COALESCE(x, 0)
CoalesceZero(x) == IF x = FNone THEN PyInt(0) ELSE x

(* ------------------------------ requests ------------------------------- *)
\* the six optional members of a scan body; an absent member and a null
\* member both read as None through data.get
NoFields ==
    [name |-> FNone, calories |-> FNone, protein |-> FNone,
     carbs |-> FNone, fat |-> FNone, image_url |-> FNone]
AllFields ==
    [name |-> PyStr(3), calories |-> PyInt(1), protein |-> PyFloat(2),
     carbs |-> PyInt(0), fat |-> PyInt(3), image_url |-> PyStr(1)]
FieldSets ==
    { NoFields,
      AllFields,
      [AllFields EXCEPT !.calories = FNone],
      [NoFields EXCEPT !.calories = PyInt(0)] }

ScanBarcodes ==
    { Absent, Null, Str(<<>>), Str(<<Space>>), Str(<<Space, "A", Space>>) }

\* the <barcode> segment of /api/product/<barcode> is never empty
PathBarcodes == { <<Space>>, <<"A", Space>>, <<"B">> }

\* request.get_json(force=True): a JSON object, or the JSON text null
Body(b, f) == [json |-> "object", barcode |-> b, fields |-> f]
NullBody == [json |-> "null", barcode |-> Absent, fields |-> NoFields]

GetProductRequest(b) == [kind |-> "get_product", path |-> b, body |-> None]
ScanRequest(k, d) == [kind |-> k, path |-> <<>>, body |-> d]

\* GET /api/scans with or without ?date=; request.args.get gives None or text
ListRequest(q) == [kind |-> "list_scans", path |-> <<>>, body |-> None, date |-> q]
SummaryRequest == [kind |-> "summary_today", path |-> <<>>, body |-> None]

\* every combination of the inputs above, served one request at a time
AllRequests ==
    { GetProductRequest(b) : b \in PathBarcodes }
    \cup { ScanRequest(k, d) :
               k \in {"add_scan", "app_add_scan"},
               d \in {Body(b, f) : b \in ScanBarcodes, f \in FieldSets}
                     \cup {NullBody} }

\* the requests that the concurrent workers serve
Requests ==
    { GetProductRequest(<<Space>>), GetProductRequest(<<"A", Space>>) }
    \cup { ScanRequest("add_scan", d) :
               d \in { Body(Null, AllFields),
                       Body(Str(<<Space>>), [NoFields EXCEPT !.calories = PyInt(0)]),
                       Body(Str(<<Space, "A", Space>>), NoFields),
                       Body(Str(<<Space, "A", Space>>),
                            [AllFields EXCEPT !.calories = FNone]) } }
    \cup { ScanRequest("app_add_scan", d) :
               d \in { Body(Str(<<Space, "A", Space>>), AllFields), NullBody } }
    \cup { ListRequest(Str(IsoDate(0))), SummaryRequest }

(* -------------------------------- state -------------------------------- *)
VARIABLES
    products,         \* table products: a set of rows
    scans,            \* table scans: its rows in insertion order
    sqlite_sequence,  \* the AUTOINCREMENT counter of scans
    now,              \* reading of the UTC clock
    started,          \* requests accepted so far
    pc,               \* where each worker is in its handler
    req,              \* the request each worker handles
    loc,              \* the handler's local variables
    resp,             \* the response each worker has produced
    res,              \* bookkeeping of the worker's lookup_product_local_first call
    last,             \* per barcode, the latest finished lookup_product_local_first
    upserted,         \* per barcode, the dict last written by upsert_product and the row it replaced
    got               \* the latest direct get_cached_product: its barcode, its result, and
                      \* whether no upsert for that barcode has happened since

vars == <<products, scans, sqlite_sequence, now, started, pc, req, loc, resp,
          res, last, upserted, got>>

NoLocals ==
    [barcode |-> <<>>, ts |-> 0, name |-> FNone, calories |-> FNone,
     protein |-> FNone, carbs |-> FNone, fat |-> FNone, image_url |-> FNone,
     fetched |-> None]

NoRequest == [kind |-> "none", path |-> <<>>, body |-> None]

NoResponse == [status |-> 0, body |-> None]

\* state: "none" (not called), "called", "returned" or "raised"; caller: the
\* handler that made the call; before: the
\* products table when the call was made; prior: what the latest finished
\* call for the same barcode came to; cached: the row the cache gave;
\* calls, writes: external calls and cache writes made by the call so far;
\* response: the external response received; value: the value returned
NoPrior == [state |-> "none", caller |-> "none", calls |-> 0, value |-> None]
NoLookup ==
    [state |-> "none", caller |-> "none", barcode |-> <<>>, before |-> {},
     prior |-> NoPrior,
     cached |-> None, calls |-> 0, writes |-> 0, response |-> None,
     value |-> None]

NoUpsert == [product |-> None, replaced |-> None]
NoGet == [barcode |-> <<>>, row |-> None, current |-> FALSE]

Summary(r) ==
    [state |-> r.state, caller |-> r.caller, calls |-> r.calls, value |-> r.value]

Init ==
    /\ products = {}
    /\ scans = <<>>
    /\ sqlite_sequence = 0
    /\ now = 0
    /\ started = 0
    /\ pc = [p \in Procs |-> "idle"]
    /\ req = [p \in Procs |-> NoRequest]
    /\ loc = [p \in Procs |-> NoLocals]
    /\ resp = [p \in Procs |-> NoResponse]
    /\ res = [p \in Procs |-> NoLookup]
    /\ last = [b \in {} |-> NoPrior]
    /\ upserted = [b \in {} |-> NoUpsert]
    /\ got = NoGet

(* ------------------------------ responses ------------------------------ *)
BadRequest == [status |-> 400, body |-> [ok |-> FALSE, error |-> "barcode is required"]]
NotFound == [status |-> 404, body |-> [ok |-> FALSE, error |-> "not found"]]
ProductFound(product) == [status |-> 200, body |-> [ok |-> TRUE, product |-> product]]
\* the answer names the rowid read before the INSERT
ScanAdded_before(id, ts) == [status |-> 200, body |-> [ok |-> TRUE, id |-> id - 1, ts |-> ts]]
ScanAdded(id, ts) == [status |-> 200, body |-> [ok |-> TRUE, id |-> id, ts |-> ts]]

ScansListed(rows) == [status |-> 200, body |-> [ok |-> TRUE, rows |-> rows]]
SummaryToday(today, row) ==
    [status |-> 200,
     body |-> [ok |-> TRUE, date |-> today, calories |-> row.calories,
               protein |-> row.protein, carbs |-> row.carbs, fat |-> row.fat,
               scans |-> row.scans]]
\* an exception that leaves the view function
ServerError == [status |-> 500, body |-> [exception |-> TRUE]]

(* ------------------------------- handlers ------------------------------ *)
\* the first free worker of the pool accepts one of the requests rs
Accept(p, rs) ==
    /\ pc[p] = "idle"
    /\ \A q \in Procs : q < p => pc[q] # "idle"
    /\ started < MaxRequests
    /\ \E r \in rs :
          /\ req' = [req EXCEPT ![p] = r]
          /\ pc' = [pc EXCEPT ![p] = r.kind]
    /\ started' = started + 1
    /\ UNCHANGED <<products, scans, sqlite_sequence, now, loc, resp, res, last,
                   upserted, got>>

\* a free worker of the pool takes a request while others are being served
Request(p) == Accept(p, Requests)

\* a request arrives when no other is being served
SeqRequest(p) == (\A q \in Procs : pc[q] = "idle") /\ Accept(p, AllRequests)

\* two of the assignments take each other's member
AutoFill_swapped(l, product) ==
    [l EXCEPT !.name = product.name, !.calories = product.calories,
              !.protein = product.carbs, !.carbs = product.protein,
              !.fat = product.fat, !.image_url = product.image_url]

\* the six locals of add_scan after the auto-fill assignments
AutoFill(l, product) ==
    [l EXCEPT !.name = product.name, !.calories = product.calories,
              !.protein = product.protein, !.carbs = product.carbs,
              !.fat = product.fat, !.image_url = product.image_url]

\* the caller of lookup_product_local_first goes on with the value x
AfterLookup(p, l, x) ==
    IF req[p].kind = "get_product"
    THEN /\ loc' = [loc EXCEPT ![p] = l]
         /\ resp' = [resp EXCEPT ![p] =
                        IF x = None THEN NotFound ELSE ProductFound(x)]
         /\ pc' = [pc EXCEPT ![p] = "done"]
    ELSE /\ loc' = [loc EXCEPT ![p] = IF x = None THEN l ELSE AutoFill(l, x)]
         /\ resp' = resp
         /\ pc' = [pc EXCEPT ![p] = "insert_scan"]

\* the call r of lookup_product_local_first is over
Finished(r) == last' = (r.barcode :> Summary(r)) @@ last

\* GET /api/product/<barcode>, up to the call of lookup_product_local_first
get_product(p) ==
    /\ pc[p] = "get_product"
    /\ LET barcode == Strip(req[p].path) IN
          IF barcode = <<>>
          THEN /\ resp' = [resp EXCEPT ![p] = BadRequest]
               /\ pc' = [pc EXCEPT ![p] = "done"]
               /\ loc' = loc
          ELSE /\ loc' = [loc EXCEPT ![p] = [NoLocals EXCEPT !.barcode = barcode]]
               /\ pc' = [pc EXCEPT ![p] = "get_cached_product"]
               /\ resp' = resp
    /\ UNCHANGED <<products, scans, sqlite_sequence, now, started, req, res,
                   last, upserted, got>>

\* the trigger tests the values' truth instead of their presence
AllMissing_falsy(l) ==
    /\ ~Truthy(l.name) /\ ~Truthy(l.calories) /\ ~Truthy(l.protein)
    /\ ~Truthy(l.carbs) /\ ~Truthy(l.fat) /\ ~Truthy(l.image_url)

\* the auto-fill trigger of add_scan
AllMissing(l) ==
    /\ l.name = FNone /\ l.calories = FNone /\ l.protein = FNone
    /\ l.carbs = FNone /\ l.fat = FNone /\ l.image_url = FNone

\* POST /api/scan of nutritionDB.py, up to the auto-fill decision
add_scan(p) ==
    /\ pc[p] = "add_scan"
    /\ LET data == IF req[p].body.json = "null"
                   THEN [barcode |-> Absent, fields |-> NoFields]
                   ELSE [barcode |-> req[p].body.barcode,
                         fields |-> req[p].body.fields]
           barcode == Strip(BarcodeText(data.barcode))
           l == [NoLocals EXCEPT
                    !.barcode = barcode, !.ts = now,
                    !.name = data.fields.name,
                    !.calories = data.fields.calories,
                    !.protein = data.fields.protein,
                    !.carbs = data.fields.carbs,
                    !.fat = data.fields.fat,
                    !.image_url = data.fields.image_url]
       IN IF barcode = <<>>
          THEN /\ resp' = [resp EXCEPT ![p] = BadRequest]
               /\ pc' = [pc EXCEPT ![p] = "done"]
               /\ loc' = loc
          ELSE /\ loc' = [loc EXCEPT ![p] = l]
               /\ pc' = [pc EXCEPT ![p] =
                            IF AllMissing(l) THEN "get_cached_product"
                            ELSE "insert_scan"]
               /\ resp' = resp
    /\ UNCHANGED <<products, scans, sqlite_sequence, now, started, req, res,
                   last, upserted, got>>

\* POST /api/scan of app.py, up to the INSERT
app_add_scan(p) ==
    /\ pc[p] = "app_add_scan"
    /\ IF req[p].body.json = "null"
       THEN /\ resp' = [resp EXCEPT ![p] = ServerError]
            /\ pc' = [pc EXCEPT ![p] = "done"]
            /\ loc' = loc
       ELSE LET data == req[p].body
                barcode == Strip(BarcodeText(data.barcode))
                l == [NoLocals EXCEPT
                         !.barcode = barcode, !.ts = now,
                         !.name = data.fields.name,
                         !.calories = data.fields.calories,
                         !.protein = data.fields.protein,
                         !.carbs = data.fields.carbs,
                         !.fat = data.fields.fat]
            IN IF barcode = <<>>
               THEN /\ resp' = [resp EXCEPT ![p] = BadRequest]
                    /\ pc' = [pc EXCEPT ![p] = "done"]
                    /\ loc' = loc
               ELSE /\ loc' = [loc EXCEPT ![p] = l]
                    /\ pc' = [pc EXCEPT ![p] = "insert_scan"]
                    /\ resp' = resp
    /\ UNCHANGED <<products, scans, sqlite_sequence, now, started, req, res,
                   last, upserted, got>>

\* lookup_product_local_first is called and reads the cache
get_cached_product(p) ==
    /\ pc[p] = "get_cached_product"
    /\ LET barcode == loc[p].barcode
           rows == SelectProduct(products, barcode)
           call == [NoLookup EXCEPT
                       !.state = "called", !.caller = req[p].kind,
                       !.barcode = barcode,
                       !.before = products,
                       !.prior = IF barcode \in DOMAIN last
                                 THEN last[barcode] ELSE NoPrior]
       IN IF rows # {}
          THEN \E row \in rows :
                  LET r == [call EXCEPT !.state = "returned", !.cached = row,
                                        !.value = row]
                  IN /\ res' = [res EXCEPT ![p] = r]
                     /\ Finished(r)
                     /\ AfterLookup(p, loc[p], row)
          ELSE /\ res' = [res EXCEPT ![p] = call]
               /\ pc' = [pc EXCEPT ![p] = "fetch_openfoodfacts"]
               /\ UNCHANGED <<loc, resp, last>>
    /\ UNCHANGED <<products, scans, sqlite_sequence, now, started, req,
                   upserted, got>>

\* cache miss: the external call, answered by one of rs, and the
\* normalisation of its payload
Fetch(p, rs) ==
    /\ pc[p] = "fetch_openfoodfacts"
    /\ \E r \in rs :
          LET out == fetch_openfoodfacts(loc[p].barcode, r, now)
              c == [res[p] EXCEPT !.calls = @ + 1, !.response = r]
          IN IF out.raised
             THEN /\ res' = [res EXCEPT ![p] = [c EXCEPT !.state = "raised"]]
                  /\ Finished([c EXCEPT !.state = "raised"])
                  /\ resp' = [resp EXCEPT ![p] = ServerError]
                  /\ pc' = [pc EXCEPT ![p] = "done"]
                  /\ loc' = loc
             ELSE IF out.value = None
             THEN /\ res' = [res EXCEPT ![p] = [c EXCEPT !.state = "returned"]]
                  /\ Finished([c EXCEPT !.state = "returned"])
                  /\ AfterLookup(p, loc[p], None)
             ELSE /\ res' = [res EXCEPT ![p] = c]
                  /\ loc' = [loc EXCEPT ![p].fetched = out.value]
                  /\ pc' = [pc EXCEPT ![p] = "upsert_product"]
                  /\ UNCHANGED <<resp, last>>
    /\ UNCHANGED <<products, scans, sqlite_sequence, now, started, req,
                   upserted, got>>

fetch(p) == Fetch(p, Responses)

SeqFetch(p) == Fetch(p, AllResponses)

\* bookkeeping of a write of product to the cache
Replaced(barcode) ==
    IF SelectProduct(products, barcode) = {} THEN None
    ELSE CHOOSE row \in SelectProduct(products, barcode) : TRUE
Upserted(product) ==
    upserted' = (product.barcode :>
                    [product |-> product, replaced |-> Replaced(product.barcode)])
                @@ upserted

\* the fetched product is written to the cache and returned
upsert(p) ==
    /\ pc[p] = "upsert_product"
    /\ LET fetched == loc[p].fetched IN
          IF ~ProductBindable(fetched)
          THEN /\ res' = [res EXCEPT ![p].state = "raised"]
               /\ Finished([res[p] EXCEPT !.state = "raised"])
               /\ resp' = [resp EXCEPT ![p] = ServerError]
               /\ pc' = [pc EXCEPT ![p] = "done"]
               /\ UNCHANGED <<products, upserted, got, loc>>
          ELSE LET r == [res[p] EXCEPT !.state = "returned",
                                       !.writes = @ + 1, !.value = fetched]
               IN /\ products' = upsert_product(products, fetched)
                  /\ Upserted(fetched)
                  /\ got' = [got EXCEPT !.current = @ /\ got.barcode # fetched.barcode]
                  /\ res' = [res EXCEPT ![p] = r]
                  /\ Finished(r)
                  /\ AfterLookup(p, loc[p], fetched)
    /\ UNCHANGED <<scans, sqlite_sequence, now, started, req>>

\* INSERT INTO scans and the response of add_scan
insert_scan(p) ==
    /\ pc[p] = "insert_scan"
    /\ IF ~ScanBindable(loc[p])
       THEN /\ resp' = [resp EXCEPT ![p] = ServerError]
            /\ UNCHANGED <<scans, sqlite_sequence>>
       ELSE LET scan_id == sqlite_sequence + 1 IN
            /\ scans' = Append(scans, ScanRow(scan_id, loc[p]))
            /\ sqlite_sequence' = scan_id
            /\ resp' = [resp EXCEPT ![p] = ScanAdded(scan_id, loc[p].ts)]
    /\ pc' = [pc EXCEPT ![p] = "done"]
    /\ UNCHANGED <<products, now, started, req, loc, res, last, upserted, got>>

\* GET /api/scans
list_scans(p) ==
    /\ pc[p] = "list_scans"
    /\ LET q_date == req[p].date
           selected == IF q_date.k = "str" /\ q_date.s # <<>>
                       THEN WhereDate(scans, q_date.s)
                       ELSE scans
       IN \E rows \in OrderByTs(selected) :
             resp' = [resp EXCEPT ![p] = ScansListed(Limit(rows))]
    /\ pc' = [pc EXCEPT ![p] = "done"]
    /\ UNCHANGED <<products, scans, sqlite_sequence, now, started, req, loc,
                   res, last, upserted, got>>

\* the one row of the SELECT of summary_today over the rows of today
SummaryRow(rows) ==
    [calories |-> CoalesceZero(SqlSum(rows, "calories")),
     protein |-> CoalesceZero(SqlSum(rows, "protein")),
     carbs |-> CoalesceZero(SqlSum(rows, "carbs")),
     fat |-> CoalesceZero(SqlSum(rows, "fat")),
     scans |-> Len(rows)]

\* GET /api/summary/today, under the offset of local time in force
summary_today(p) ==
    /\ pc[p] = "summary_today"
    /\ \E offset \in UtcOffsets :
          LET today == Today(now, offset) IN
          resp' = [resp EXCEPT ![p] =
                      SummaryToday(today, SummaryRow(WhereDate(scans, today)))]
    /\ pc' = [pc EXCEPT ![p] = "done"]
    /\ UNCHANGED <<products, scans, sqlite_sequence, now, started, req, loc,
                   res, last, upserted, got>>

\* the response is sent and the worker is free again
Finish(p) ==
    /\ pc[p] = "done"
    /\ pc' = [pc EXCEPT ![p] = "idle"]
    /\ req' = [req EXCEPT ![p] = NoRequest]
    /\ loc' = [loc EXCEPT ![p] = NoLocals]
    /\ resp' = [resp EXCEPT ![p] = NoResponse]
    /\ res' = [res EXCEPT ![p] = NoLookup]
    /\ UNCHANGED <<products, scans, sqlite_sequence, now, started, last,
                   upserted, got>>

\* time passes
Tick ==
    /\ now < MaxClock
    /\ now' = now + 1
    /\ UNCHANGED <<products, scans, sqlite_sequence, started, pc, req, loc,
                   resp, res, last, upserted, got>>

Next ==
    \/ \E p \in Procs : Request(p)
    \/ \E p \in Procs : get_product(p)
    \/ \E p \in Procs : add_scan(p)
    \/ \E p \in Procs : app_add_scan(p)
    \/ \E p \in Procs : get_cached_product(p)
    \/ \E p \in Procs : fetch(p)
    \/ \E p \in Procs : upsert(p)
    \/ \E p \in Procs : insert_scan(p)
    \/ \E p \in Procs : list_scans(p)
    \/ \E p \in Procs : summary_today(p)
    \/ \E p \in Procs : Finish(p)
    \/ Tick

Spec == Init /\ [][Next]_vars

\* the same handlers, serving one request at a time
SeqNext ==
    \/ \E p \in Procs : SeqRequest(p)
    \/ \E p \in Procs : get_product(p)
    \/ \E p \in Procs : add_scan(p)
    \/ \E p \in Procs : app_add_scan(p)
    \/ \E p \in Procs : get_cached_product(p)
    \/ \E p \in Procs : SeqFetch(p)
    \/ \E p \in Procs : upsert(p)
    \/ \E p \in Procs : insert_scan(p)
    \/ \E p \in Procs : Finish(p)
    \/ Tick

SeqSpec == Init /\ [][SeqNext]_vars

(* ------------------- the product cache used on its own ------------------ *)
\* dicts that a caller may hand to upsert_product at the clock reading clock
FullProduct(barcode, clock) ==
    [barcode |-> barcode, name |-> PyStr(1), calories |-> PyInt(2),
     protein |-> PyFloat(1), carbs |-> PyInt(0), fat |-> PyFloat(3),
     image_url |-> PyStr(2), source |-> "openfoodfacts", updated_at |-> clock]
SparseProduct(barcode, clock) ==
    [barcode |-> barcode, name |-> PyStr(3), calories |-> FNone,
     protein |-> FNone, carbs |-> FNone, fat |-> FNone,
     image_url |-> FNone, source |-> "manual", updated_at |-> clock]
ProductDicts(clock) ==
    UNION { { FullProduct(b, clock), SparseProduct(b, clock),
              [FullProduct(b, clock) EXCEPT !.name = PyStr(2), !.calories = FNone] }
            : b \in {<<"A">>, <<"B">>} }

\* upsert_product(product), called directly
CallUpsert(product) ==
    /\ \A p \in Procs : pc[p] = "idle"
    /\ products' = upsert_product(products, product)
    /\ Upserted(product)
    /\ got' = [got EXCEPT !.current = @ /\ got.barcode # product.barcode]
    /\ UNCHANGED <<scans, sqlite_sequence, now, started, pc, req, loc, resp,
                   res, last>>

\* get_cached_product(barcode), called directly
CallGet(barcode) ==
    /\ \A p \in Procs : pc[p] = "idle"
    /\ LET rows == SelectProduct(products, barcode) IN
          IF rows = {}
          THEN got' = [barcode |-> barcode, row |-> None, current |-> TRUE]
          ELSE \E row \in rows :
                  got' = [barcode |-> barcode, row |-> row, current |-> TRUE]
    /\ UNCHANGED <<products, upserted, scans, sqlite_sequence, now, started,
                   pc, req, loc, resp, res, last>>

StoreNext ==
    \/ \E product \in ProductDicts(now) : CallUpsert(product)
    \/ \E barcode \in {<<"A">>, <<"B">>} : CallGet(barcode)
    \/ Tick

StoreSpec == Init /\ [][StoreNext]_vars

(* --------------- the scan history and the queries over it --------------- *)
\* a row that an earlier run of the server left in nutrition.db
StoredScan(id, ts, f) ==
    ScanRow(id, [NoLocals EXCEPT !.barcode = <<"A">>, !.ts = ts,
                                 !.name = f.name, !.calories = f.calories,
                                 !.protein = f.protein, !.carbs = f.carbs,
                                 !.fat = f.fat, !.image_url = f.image_url])

\* two days before the start, the eve of the start (rows 2 and 3 inserted
\* against the order of their timestamps), and the eve again
ShortHistory ==
    << StoredScan(1, 0 - 2 * TicksPerDay, AllFields),
       StoredScan(2, 0 - 1, NoFields),
       StoredScan(3, 0 - 2, [NoFields EXCEPT !.calories = PyInt(2)]),
       StoredScan(4, 0 - 2, [AllFields EXCEPT !.fat = FNone]) >>

\* two rows two days before the start, then one row more than the listing
\* returns, all on the eve of the start, every third without calories
LongHistory ==
    [i \in 1..(ListLimit + 3) |->
        IF i < 3 THEN StoredScan(i, i - 2 * TicksPerDay, AllFields)
        ELSE StoredScan(i, (i - 3) - TicksPerDay,
                        [AllFields EXCEPT !.calories =
                            IF i % 3 = 0 THEN FNone ELSE PyInt(i % 3)])]

Histories == { <<>>, ShortHistory, LongHistory }

HistoryInit ==
    /\ products = {}
    /\ scans \in Histories
    /\ sqlite_sequence = Len(scans)
    /\ now = 0
    /\ started = 0
    /\ pc = [p \in Procs |-> "idle"]
    /\ req = [p \in Procs |-> NoRequest]
    /\ loc = [p \in Procs |-> NoLocals]
    /\ resp = [p \in Procs |-> NoResponse]
    /\ res = [p \in Procs |-> NoLookup]
    /\ last = [b \in {} |-> NoPrior]
    /\ upserted = [b \in {} |-> NoUpsert]
    /\ got = NoGet

\* scans that supply a field, listings and summaries
HistoryRequests ==
    { ScanRequest("add_scan", Body(Str(<<Space, "A", Space>>), f)) :
          f \in { AllFields, [NoFields EXCEPT !.name = PyStr(1)],
                  [NoFields EXCEPT !.calories = PyInt(0)] } }
    \cup { ListRequest(q) :
               q \in { Absent, Str(<<>>), Str(<<"A">>), Str(IsoDate(0 - 1)),
                       Str(IsoDate(0)) } }
    \cup { SummaryRequest }

HistoryRequest(p) == (\A q \in Procs : pc[q] = "idle") /\ Accept(p, HistoryRequests)

HistoryNext ==
    \/ \E p \in Procs : HistoryRequest(p)
    \/ \E p \in Procs : add_scan(p)
    \/ \E p \in Procs : insert_scan(p)
    \/ \E p \in Procs : list_scans(p)
    \/ \E p \in Procs : summary_today(p)
    \/ \E p \in Procs : Finish(p)
    \/ Tick

HistorySpec == HistoryInit /\ [][HistoryNext]_vars

(* ------------------------ vocabulary of the claims ---------------------- *)
\* two product dicts carry the same data
SameProduct(x, y) ==
    IF x = None \/ y = None THEN x = y
    ELSE /\ x.barcode = y.barcode
         /\ PyEq(x.name, y.name) /\ PyEq(x.calories, y.calories)
         /\ PyEq(x.protein, y.protein) /\ PyEq(x.carbs, y.carbs)
         /\ PyEq(x.fat, y.fat) /\ PyEq(x.image_url, y.image_url)
         /\ x.source = y.source /\ x.updated_at = y.updated_at

\* the six optional fields of x equal those of y
SameSix(x, y) ==
    /\ PyEq(x.name, y.name) /\ PyEq(x.calories, y.calories)
    /\ PyEq(x.protein, y.protein) /\ PyEq(x.carbs, y.carbs)
    /\ PyEq(x.fat, y.fat) /\ PyEq(x.image_url, y.image_url)

\* the products table holds an entry for barcode
Cached(table, barcode) == \E row \in table : row.barcode = barcode

\* the ways the external source can fail
NetworkFailure(r) == r.net # "ok"
BadStatus(r) == r.net = "ok" /\ r.status_code # 200
Answered(r) == r.net = "ok" /\ r.status_code = 200
Unparseable(r) == Answered(r) /\ r.json_content_type /\ r.body = "invalid"
Malformed(r) ==
    /\ Answered(r) /\ r.json_content_type
    /\ \/ r.body = "array"
       \/ r.body = "object" /\ r.product = "nondict"
       \/ /\ r.body = "object" /\ r.product = "dict"
          /\ \/ r.nutriments = "nondict"
             \/ r.nutriments = "dict" /\
                Obj \in {r.energy_kcal_100g, r.proteins_100g,
                         r.carbohydrates_100g, r.fat_100g}
Nameless(r) ==
    /\ Answered(r)
    /\ \/ ~r.json_content_type
       \/ r.body = "object" /\ r.product = "missing"
       \/ /\ r.body = "object" /\ r.product = "dict"
          /\ ~Truthy(r.product_name) /\ ~Truthy(r.product_name_en)
ExternalFailure(r) ==
    \/ NetworkFailure(r) \/ BadStatus(r) \/ Unparseable(r)
    \/ Malformed(r) \/ Nameless(r)

\* worker p has finished a lookup_product_local_first call
LookupOver(p) == res[p].state \in {"returned", "raised"}

\* the request of worker p is a scan submission without a barcode
NoBarcode(p) ==
    /\ req[p].kind \in {"add_scan", "app_add_scan"}
    /\ \/ req[p].body.json = "null"
       \/ req[p].body.barcode.k \in {"absent", "null"}
       \/ Strip(req[p].body.barcode.s) = <<>>

\* the rows of scans that carry the id reported to worker p
RecordedRows(p) ==
    {scans[i] : i \in {j \in DOMAIN scans : scans[j].id = resp[p].body.id}}

\* none of the six optional fields is supplied in the body of worker p
NoneSupplied(p) ==
    \A x \in {req[p].body.fields.name, req[p].body.fields.calories,
               req[p].body.fields.protein, req[p].body.fields.carbs,
               req[p].body.fields.fat, req[p].body.fields.image_url} : x = FNone

\* the name and the four nutrient values that a named product's payload carries
ExternalValues(r) ==
    [name |-> IF Truthy(r.product_name) THEN r.product_name ELSE r.product_name_en,
     calories |-> IF r.nutriments = "dict" THEN r.energy_kcal_100g ELSE FNone,
     protein |-> IF r.nutriments = "dict" THEN r.proteins_100g ELSE FNone,
     carbs |-> IF r.nutriments = "dict" THEN r.carbohydrates_100g ELSE FNone,
     fat |-> IF r.nutriments = "dict" THEN r.fat_100g ELSE FNone]

\* name and nutrient values of x equal those of y
SameFive(x, y) ==
    /\ PyEq(x.name, y.name) /\ PyEq(x.calories, y.calories)
    /\ PyEq(x.protein, y.protein) /\ PyEq(x.carbs, y.carbs)
    /\ PyEq(x.fat, y.fat)

\* worker p serves POST /api/scan of nutritionDB.py with a barcode
Recording(p) == req[p].kind = "add_scan" /\ ~NoBarcode(p)

\* that request has succeeded
Recorded(p) == Recording(p) /\ pc[p] = "done" /\ resp[p].status = 200

\* the places in scans of the rows whose timestamp falls on the day written day
OnDay(day) == {i \in DOMAIN scans : IsoDate(scans[i].ts \div TicksPerDay) = day}

\* what the rows lo..hi of scans that fall on day hold in column col, taken
\* together, a row without a value counting nothing
RECURSIVE DayTotal(_, _, _, _)
DayTotal(lo, hi, day, col) ==
    IF lo > hi THEN 0
    ELSE IF lo = hi
    THEN IF lo \in OnDay(day) /\ scans[lo][col] # FNone THEN scans[lo][col].v ELSE 0
    ELSE DayTotal(lo, (lo + hi) \div 2, day, col)
         + DayTotal((lo + hi) \div 2 + 1, hi, day, col)

\* x is the number n
IsNumber(x, n) == x.t \in {"int", "real"} /\ x.v = n

\* worker p has answered GET /api/summary/today
Summarised(p) == req[p].kind = "summary_today" /\ pc[p] = "done"

\* worker p has answered GET /api/scans
Listed(p) == req[p].kind = "list_scans" /\ pc[p] = "done"

(* -------------------------------- claims -------------------------------- *)
\* C1 as stated: a lookup that misses the cache makes exactly one external
\* call, and a lookup made after an earlier lookup of the same barcode has
\* returned makes no external call and returns the same product data.
C1_SecondLookupNeverFetches ==
    \A p \in Procs :
        LookupOver(p) =>
            /\ ~Cached(res[p].before, res[p].barcode) => res[p].calls = 1
            /\ res[p].prior.state = "returned" /\ res[p].prior.calls = 1 =>
                  /\ res[p].state = "returned"
                  /\ res[p].calls = 0
                  /\ SameProduct(res[p].value, res[p].prior.value)

\* C1 (amended): a lookup that misses the cache makes exactly one external
\* call; when an earlier lookup of the same barcode has returned a product,
\* a later lookup makes no external call and returns the same product data.
C1_SecondLookupAfterProduct ==
    \A p \in Procs :
        LookupOver(p) =>
            /\ ~Cached(res[p].before, res[p].barcode) => res[p].calls = 1
            /\ res[p].prior.state = "returned" /\ res[p].prior.value # None =>
                  /\ res[p].state = "returned"
                  /\ res[p].calls = 0
                  /\ SameProduct(res[p].value, res[p].prior.value)

\* a second lookup served from the entry that the first one fetched
C1_Witness ==
    \E p \in Procs :
        /\ res[p].state = "returned" /\ res[p].calls = 0
        /\ res[p].prior.state = "returned" /\ res[p].prior.calls = 1
        /\ res[p].prior.value # None
        /\ res[p].value.calories # res[p].prior.value.calories

\* C2: a lookup called while the cache holds an entry for its barcode
\* returns that entry in one step that makes no external call and leaves
\* products and scans as they are; no lookup that found the barcode cached
\* is ever at the external call or at the cache write.
C2_HitStep ==
    \A p \in Procs :
        /\ pc[p] = "get_cached_product"
        /\ pc'[p] # "get_cached_product"
        /\ Cached(products, loc[p].barcode)
        => /\ res'[p].state = "returned"
           /\ res'[p].value \in products
           /\ res'[p].value.barcode = loc[p].barcode
           /\ res'[p].calls = 0 /\ res'[p].writes = 0
           /\ pc'[p] \notin {"fetch_openfoodfacts", "upsert_product"}
           /\ products' = products /\ scans' = scans

C2_HitState ==
    \A p \in Procs :
        res[p].state # "none" /\ Cached(res[p].before, res[p].barcode)
        => /\ res[p].state = "returned"
           /\ res[p].value \in res[p].before
           /\ res[p].calls = 0 /\ res[p].writes = 0
           /\ pc[p] \notin {"fetch_openfoodfacts", "upsert_product"}

C2_CacheHit == [][C2_HitStep]_vars /\ []C2_HitState

\* a lookup served from the entry that an earlier lookup fetched and cached
C2_Witness ==
    \E p \in Procs :
        /\ res[p].state = "returned" /\ res[p].calls = 0
        /\ Cached(res[p].before, res[p].barcode)
        /\ res[p].value \in products
        /\ res[p].prior.calls = 1

\* C3: whatever way the external source fails, the lookup returns None
\* and raises nothing.
C3_FailureIsNotFound ==
    \A p \in Procs :
        LookupOver(p) /\ res[p].calls = 1 /\ ExternalFailure(res[p].response)
        => res[p].state = "returned" /\ res[p].value = None

\* C4: a lookup whose external call failed, or that returned None, has
\* left the products table as it was at the call, without an entry for its
\* barcode; and a lookup made after one that returned None calls the
\* external source again.
C4_NegativeNotCached ==
    \A p \in Procs :
        /\ LookupOver(p) /\ res[p].calls = 1 /\ ExternalFailure(res[p].response)
           => /\ products = res[p].before
              /\ ~Cached(products, res[p].barcode)
              /\ res[p].writes = 0
        /\ res[p].state = "returned" /\ res[p].value = None
           => /\ products = res[p].before
              /\ ~Cached(products, res[p].barcode)
              /\ res[p].writes = 0
        /\ LookupOver(p) /\ res[p].prior.state = "returned"
                         /\ res[p].prior.value = None
           => res[p].calls = 1

\* a lookup that ended in NotFound after an earlier one had also done so
C4_Witness ==
    \E p \in Procs :
        /\ res[p].state = "returned" /\ res[p].value = None
        /\ Nameless(res[p].response)
        /\ res[p].prior.state = "returned" /\ res[p].prior.value = None
        /\ res[p].calls = 1

\* C5: the products table holds at most one row per barcode, and a
\* get_cached_product with no upsert for its barcode since returns the dict
\* last upserted for that barcode in all its fields (None when there was
\* none), whatever row that upsert replaced.
C5_UpsertThenGet ==
    /\ \A r1, r2 \in products : r1.barcode = r2.barcode => r1 = r2
    /\ got.current =>
          IF got.barcode \in DOMAIN upserted
          THEN SameProduct(got.row, upserted[got.barcode].product)
          ELSE got.row = None

\* a get after a sparse dict has replaced a row that had all its fields
C5_Witness ==
    /\ got.current /\ got.row # None
    /\ got.barcode \in DOMAIN upserted
    /\ upserted[got.barcode].replaced # None
    /\ upserted[got.barcode].replaced.calories # FNone
    /\ upserted[got.barcode].replaced.source # got.row.source
    /\ got.row.calories = FNone
    /\ Cardinality(products) = 2

\* C6: a scan submission whose JSON object has no barcode (the member is
\* absent, null, empty or blank) goes from its first statement straight to
\* the response 400 "barcode is required": it never reads or writes a table
\* and never calls the external source.
C6_NoBarcodeRejected ==
    \A p \in Procs :
        NoBarcode(p) /\ req[p].body.json = "object" =>
            /\ pc[p] \in {"add_scan", "app_add_scan", "done"}
            /\ res[p].state = "none"
            /\ pc[p] = "done" => resp[p] = BadRequest

\* C7: a scan recorded for a request without optional fields, whose lookup
\* found its barcode cached, has the six optional fields of the cached row.
C7_AutoFillFromCache ==
    \A p \in Procs :
        /\ Recorded(p) /\ NoneSupplied(p)
        /\ Cached(res[p].before, res[p].barcode)
        => /\ res[p].cached \in res[p].before
           /\ RecordedRows(p) # {}
           /\ \A row \in RecordedRows(p) :
                 /\ row.barcode = res[p].cached.barcode
                 /\ row.name = res[p].cached.name
                 /\ row.calories = res[p].cached.calories
                 /\ row.protein = res[p].cached.protein
                 /\ row.carbs = res[p].cached.carbs
                 /\ row.fat = res[p].cached.fat
                 /\ row.image_url = res[p].cached.image_url

\* such a scan, filled from a cached row with distinct nutrient values
C7_Witness ==
    \E p \in Procs :
        /\ Recorded(p) /\ NoneSupplied(p)
        /\ Cached(res[p].before, res[p].barcode)
        /\ \E row \in RecordedRows(p) :
              /\ row.name = PyStr(1) /\ row.calories = PyFloat(2)
              /\ row.protein = PyFloat(1) /\ row.carbs = PyFloat(3)
              /\ row.image_url = PyStr(2)

\* C8: when a scan request without optional fields misses the cache and
\* the external source delivers a named product, the request succeeds, the
\* recorded row carries the payload's name and nutrient values, and the
\* cache holds an entry for the barcode with these values; a product
\* request that follows returns them with no external call.
C8_WriteThrough ==
    \A p \in Procs :
        /\ /\ Recording(p) /\ NoneSupplied(p) /\ pc[p] = "done"
           /\ res[p].calls = 1 /\ ~ExternalFailure(res[p].response)
           => /\ resp[p].status = 200
              /\ RecordedRows(p) # {}
              /\ \A row \in RecordedRows(p) :
                    /\ row.barcode = res[p].barcode
                    /\ SameFive(row, ExternalValues(res[p].response))
              /\ \E e \in products :
                    /\ e.barcode = res[p].barcode
                    /\ SameFive(e, ExternalValues(res[p].response))
        /\ /\ req[p].kind = "get_product" /\ pc[p] = "done"
           /\ res[p].prior.caller = "add_scan"
           /\ res[p].prior.state = "returned" /\ res[p].prior.value # None
           => /\ resp[p].status = 200
              /\ res[p].calls = 0
              /\ SameFive(resp[p].body.product, res[p].prior.value)
              /\ \E i \in DOMAIN scans :
                    /\ scans[i].barcode = res[p].barcode
                    /\ SameFive(scans[i], resp[p].body.product)

\* a product request answered from the entry that a scan wrote through
C8_Witness ==
    \E p \in Procs :
        /\ req[p].kind = "get_product" /\ pc[p] = "done"
        /\ res[p].prior.caller = "add_scan" /\ res[p].prior.calls = 1
        /\ res[p].prior.value # None
        /\ resp[p].status = 200
        /\ resp[p].body.product.calories = PyFloat(2)
        /\ Len(scans) = 1 /\ scans[1].calories = PyFloat(2)

\* C9: a scan request with a barcode and no optional fields whose lookup
\* met a failing external source still succeeds and records one row with
\* that barcode and the six optional fields empty.
C9_AutoFillFailureRecorded ==
    \A p \in Procs :
        /\ Recording(p) /\ NoneSupplied(p) /\ pc[p] = "done"
        /\ res[p].calls = 1 /\ ExternalFailure(res[p].response)
        => /\ resp[p].status = 200
           /\ Cardinality(RecordedRows(p)) = 1
           /\ \A row \in RecordedRows(p) :
                 /\ row.barcode = res[p].barcode
                 /\ SameSix(row, NoFields)

\* C10: add_scan calls the lookup if and only if none of the six optional
\* fields is supplied; with a field supplied it never reads the cache, calls
\* the external source or writes the cache, and the recorded row holds the
\* supplied values and nothing in the others.
C10_AllOrNothing ==
    \A p \in Procs :
        Recording(p) =>
            /\ ~NoneSupplied(p) =>
                  /\ res[p].state = "none"
                  /\ pc[p] \notin {"get_cached_product", "fetch_openfoodfacts",
                                  "upsert_product"}
            /\ NoneSupplied(p) /\ pc[p] \in {"insert_scan", "done"} =>
                  res[p].state # "none"
            /\ ~NoneSupplied(p) /\ pc[p] = "done" =>
                  /\ resp[p].status = 200
                  /\ RecordedRows(p) # {}
                  /\ \A row \in RecordedRows(p) :
                        /\ row.barcode = Strip(req[p].body.barcode.s)
                        /\ SameSix(row, req[p].body.fields)

\* a recorded scan that supplied only calories, and zero at that
C10_Witness ==
    \E p \in Procs :
        /\ Recorded(p) /\ res[p].state = "none"
        /\ req[p].body.fields.calories = PyInt(0)
        /\ req[p].body.fields.name = FNone
        /\ Cached(products, Strip(req[p].body.barcode.s))
        /\ \E row \in RecordedRows(p) : row.calories = PyFloat(0) /\ row.name = FNone

\* C13: the summary answers with the sums of calories, protein, carbs and
\* fat over exactly the rows of scans whose timestamp falls on the day it
\* names, and with their number; a row without a value adds nothing to the
\* sum, and a day without rows gives zeros and no error.
C13_SummaryOfDay ==
    \A p \in Procs :
        Summarised(p) =>
            LET b == resp[p].body
                n == Len(scans) IN
            /\ resp[p].status = 200 /\ b.ok
            /\ b.scans = Cardinality(OnDay(b.date))
            /\ IsNumber(b.calories, DayTotal(1, n, b.date, "calories"))
            /\ IsNumber(b.protein, DayTotal(1, n, b.date, "protein"))
            /\ IsNumber(b.carbs, DayTotal(1, n, b.date, "carbs"))
            /\ IsNumber(b.fat, DayTotal(1, n, b.date, "fat"))
            /\ OnDay(b.date) = {} =>
                  /\ b.scans = 0
                  /\ IsNumber(b.calories, 0) /\ IsNumber(b.protein, 0)
                  /\ IsNumber(b.carbs, 0) /\ IsNumber(b.fat, 0)

\* a summary of a day that has a row without calories, rows with calories,
\* and a row of another day beside it
C13_Witness ==
    \E p \in Procs :
        /\ Summarised(p)
        /\ resp[p].body.scans >= 3
        /\ resp[p].body.calories.v > 0
        /\ \E i \in OnDay(resp[p].body.date) : scans[i].calories = FNone
        /\ \E i \in DOMAIN scans : i \notin OnDay(resp[p].body.date)

\* C14: a listing asked for with a date returns only rows of scans whose
\* timestamp falls on that date, no row twice, newest first, and at most
\* 200 of them; when more than 200 rows fall on the date it returns 200,
\* and no row left out is newer than a row returned.
C14_ListingOfDay ==
    \A p \in Procs :
        Listed(p) /\ req[p].date.k = "str" /\ req[p].date.s # <<>> =>
            LET rows == resp[p].body.rows
                day == req[p].date.s
                returned == {rows[k].id : k \in DOMAIN rows} IN
            /\ resp[p].status = 200
            /\ \A k \in DOMAIN rows :
                  \E i \in OnDay(day) : scans[i] = rows[k]
            /\ \A k, m \in DOMAIN rows : k < m =>
                  rows[k].ts >= rows[m].ts /\ rows[k].id # rows[m].id
            /\ Len(rows) <= 200
            /\ Cardinality(OnDay(day)) > 200 =>
                  /\ Len(rows) = 200
                  /\ \A i \in OnDay(day) :
                        scans[i].id \notin returned =>
                            \A k \in DOMAIN rows : scans[i].ts <= rows[k].ts

\* a listing of a date on which 201 rows fall, in a history that has rows
\* of another date too
C14_Witness ==
    \E p \in Procs :
        /\ Listed(p) /\ req[p].date.k = "str"
        /\ Cardinality(OnDay(req[p].date.s)) = 201
        /\ Len(resp[p].body.rows) = 200
        /\ Len(scans) > 201
        /\ resp[p].body.rows[1].ts > resp[p].body.rows[200].ts

\* worker p has answered a scan submission with success
ScanSucceeded(p) ==
    /\ req[p].kind \in {"add_scan", "app_add_scan"}
    /\ pc[p] = "done" /\ resp[p].status = 200

\* C15 as stated: a successful scan submission answers with ok = true, the
\* id of the row it inserted, the timestamp stored in that row, and the
\* barcode of that row.
C15_AnswerCarriesBarcode ==
    \A p \in Procs :
        ScanSucceeded(p) =>
            /\ resp[p].body.ok
            /\ Cardinality(RecordedRows(p)) = 1
            /\ \A row \in RecordedRows(p) :
                  /\ row.ts = resp[p].body.ts
                  /\ "barcode" \in DOMAIN resp[p].body
                  /\ resp[p].body.barcode = row.barcode

\* C15 (amended): a successful scan submission answers with ok = true, the
\* id of the row it inserted and the timestamp stored in that row, and
\* with nothing else.
C15_AnswerCarriesIdAndTs ==
    \A p \in Procs :
        ScanSucceeded(p) =>
            /\ DOMAIN resp[p].body = {"ok", "id", "ts"}
            /\ resp[p].body.ok
            /\ Cardinality(RecordedRows(p)) = 1
            /\ \A row \in RecordedRows(p) :
                  /\ row = scans[Len(scans)]
                  /\ row.ts = resp[p].body.ts
                  /\ row.ts = loc[p].ts /\ row.barcode = loc[p].barcode

\* the answer to the second scan of a run, stored a clock reading after the
\* first
C15_Witness ==
    \E p \in Procs :
        /\ ScanSucceeded(p)
        /\ resp[p].body.id = 2 /\ resp[p].body.ts = 1
        /\ Len(scans) = 2 /\ scans[1].ts = 0 /\ scans[2].ts = 1

\* the entries of table for barcode
Entries(table, barcode) == {row \in table : row.barcode = barcode}

\* workers p and q are both in a lookup_product_local_first call for the same
\* barcode, and each found it uncached when it called
Racing(p, q) ==
    /\ p # q
    /\ res[p].state # "none" /\ res[q].state # "none"
    /\ res[p].barcode = res[q].barcode
    /\ ~Cached(res[p].before, res[p].barcode)
    /\ ~Cached(res[q].before, res[q].barcode)

\* C16: when lookups of one uncached barcode race, only the cache write of
\* a call changes the entry of its barcode, and every cache write leaves
\* exactly one entry, equal in all fields to the product that call fetched
\* and returns, whatever entry was there;
\* a racing call raises only over an unparseable or malformed answer of its
\* own, and once both have written, the one entry equals in all fields
\* what one of the two wrote.
C16_WriteStep ==
    /\ \A b \in {row.barcode : row \in products \cup products'} :
           Entries(products', b) # Entries(products, b) =>
               \E p \in Procs :
                   /\ pc[p] = "upsert_product" /\ loc[p].barcode = b
                   /\ res'[p].writes = 1
    /\ \A p \in Procs :
           res'[p].writes > res[p].writes =>
               /\ res'[p].state = "returned"
               /\ \E row \in products' :
                     /\ Entries(products', res'[p].barcode) = {row}
                     /\ SameProduct(row, loc[p].fetched)
                     /\ SameProduct(row, res'[p].value)

C16_RaceState ==
    \A p, q \in Procs :
        Racing(p, q) =>
            /\ res[p].state = "raised" =>
                  Unparseable(res[p].response) \/ Malformed(res[p].response)
            /\ res[p].writes = 1 =>
                  Cardinality(Entries(products, res[p].barcode)) = 1
            /\ res[p].writes = 1 /\ res[q].writes = 1 =>
                  \A row \in Entries(products, res[p].barcode) :
                      \/ SameProduct(row, res[p].value)
                      \/ SameProduct(row, res[q].value)

C16_RaceLastWriteWins == [][C16_WriteStep]_vars /\ []C16_RaceState

\* two racing lookups that fetched different products and both wrote: the
\* entry is the second one written, over an earlier one with more fields
C16_Witness ==
    \E p, q \in Procs :
        /\ Racing(p, q)
        /\ res[p].writes = 1 /\ res[q].writes = 1
        /\ res[p].value.calories # FNone /\ res[q].value.calories = FNone
        /\ res[p].value.updated_at < res[q].value.updated_at
        /\ \E row \in products : SameProduct(row, res[q].value)
        /\ upserted[res[p].barcode].replaced # None
        /\ upserted[res[p].barcode].replaced.calories # FNone

\* C17: a lookup_product_local_first call makes at most one external call
\* and at most one cache write; it has written only if its external call
\* was answered with a well-formed named product, and then it has returned
\* that product; a call that returns a fetched product has written it; and
\* the step that writes leaves in the cache the entry that the call returns.
C17_CallState ==
    \A p \in Procs :
        res[p].state # "none" =>
            /\ res[p].calls \in {0, 1} /\ res[p].writes \in {0, 1}
            /\ res[p].writes = 1 =>
                  /\ res[p].calls = 1
                  /\ Answered(res[p].response)
                  /\ ~ExternalFailure(res[p].response)
                  /\ res[p].state = "returned" /\ res[p].value # None
                  /\ Truthy(res[p].value.name)
            /\ res[p].state = "returned" /\ res[p].calls = 1
                                         /\ res[p].value # None =>
                  res[p].writes = 1

C17_CallStep ==
    /\ \A p \in Procs :
          /\ res'[p].calls > res[p].calls =>
                res[p].calls = 0 /\ res[p].writes = 0 /\ res[p].state = "called"
          /\ res'[p].writes > res[p].writes =>
                /\ res[p].calls = 1 /\ res[p].state = "called"
                /\ \E row \in products' :
                      /\ row.barcode = res'[p].barcode
                      /\ SameProduct(row, res'[p].value)
    /\ products' # products =>
          Cardinality({p \in Procs : res'[p].writes > res[p].writes}) = 1

C17_OneCallOneWrite == [][C17_CallStep]_vars /\ []C17_CallState

\* a call that fetched a product named only in English, wrote it and
\* returned it, while the other worker's call for the barcode is still at
\* the external source
C17_Witness ==
    \E p, q \in Procs :
        /\ res[p].state = "returned" /\ res[p].calls = 1 /\ res[p].writes = 1
        /\ res[p].response.product_name_en = PyStr(3)
        /\ res[p].value.name = PyStr(3)
        /\ \E row \in products : SameProduct(row, res[p].value)
        /\ q # p /\ pc[q] = "fetch_openfoodfacts"
        /\ res[q].barcode = res[p].barcode

\* worker p answers a scan submission with success in this step
Records(p) ==
    /\ req[p].kind \in {"add_scan", "app_add_scan"}
    /\ pc[p] # "done" /\ pc'[p] = "done" /\ resp'[p].status = 200

\* C18: no step of any handler changes or removes a row of scans; a step
\* adds a row exactly when it is the success of one scan submission, and
\* then it adds one row, the last, with the id it answers; every row has a
\* barcode that is not empty, and the ids grow strictly in insertion order.
C18_HistoryStep ==
    /\ \A i \in DOMAIN scans : i \in DOMAIN scans' /\ scans'[i] = scans[i]
    /\ Len(scans') \in {Len(scans), Len(scans) + 1}
    /\ \A p \in Procs :
          Records(p) =>
              /\ Len(scans') = Len(scans) + 1
              /\ scans'[Len(scans')].id = resp'[p].body.id
    /\ Len(scans') = Len(scans) + 1 =>
          Cardinality({p \in Procs : Records(p)}) = 1

C18_HistoryState ==
    /\ \A i \in DOMAIN scans : scans[i].barcode # <<>>
    /\ \A i, j \in DOMAIN scans : i < j => scans[i].id < scans[j].id

C18_AppendOnly == [][C18_HistoryStep]_vars /\ []C18_HistoryState

\* two rows of concurrent submissions, the one inserted first stamped
\* later than the other, which went through a lookup
C18_Witness ==
    /\ Len(scans) = 2
    /\ scans[1].ts > scans[2].ts
    /\ \E p \in Procs : Recorded(p) /\ res[p].calls = 1

\* the barcode that the request of worker p asks about
AskedBarcode(p) ==
    IF req[p].kind = "get_product" THEN Strip(req[p].path)
    ELSE Strip(req[p].body.barcode.s)

\* C19: every entry of products has a name that is not empty, the source
\* tag "openfoodfacts" and the barcode of a finished lookup; and an entry
\* comes into products only by the write of a lookup called for the
\* entry's barcode, which is the trimmed barcode of the request.
C19_EntryState ==
    \A row \in products :
        /\ row.name # FNone /\ row.name # PyStr(0) /\ row.name.t = "text"
        /\ row.source = "openfoodfacts"
        /\ row.barcode # <<>>
        /\ row.barcode \in DOMAIN last

C19_EntryStep ==
    \A row \in products' :
        row \notin products =>
            \E p \in Procs :
                /\ res'[p].writes > res[p].writes
                /\ res[p].barcode = row.barcode
                /\ AskedBarcode(p) = row.barcode

C19_ResolvedEntries == [][C19_EntryStep]_vars /\ []C19_EntryState

\* an entry named from the English name of a payload without nutriments,
\* written for a barcode that the request gave with blanks around it
C19_Witness ==
    \E row \in products :
        /\ row.name = PyStr(3) /\ row.calories = FNone
        /\ row.barcode = <<"A">>
        /\ \E p \in Procs :
              /\ req[p].kind = "add_scan" /\ res[p].writes = 1
              /\ req[p].body.barcode.s = <<Space, "A", Space>>

\* C20: a summary answered while the clock still reads what it read when a
\* scan was stamped is a summary of the day of that stamp, so that it
\* counts the scan.
C20_SameInstantCounted ==
    \A p \in Procs :
        Summarised(p) =>
            \A i \in DOMAIN scans :
                scans[i].ts = now =>
                    /\ resp[p].body.date = IsoDate(scans[i].ts \div TicksPerDay)
                    /\ i \in OnDay(resp[p].body.date)
                    /\ resp[p].body.scans >= 1

====
